---- MODULE Spec2Model ----
(***************************************************************************)
(* RAG document QA service: the upload / ask / delete handlers of          *)
(* src/app/main.py with the services they call (rag_service.py,            *)
(* embedding_service.py, file_service.py, database.py) and the remote      *)
(* stores they act on (Redis cache, Pinecone index, S3, Postgres).         *)
(* Every remote call may fail; a handler is one atomic step.               *)
(***************************************************************************)
EXTENDS Integers, Sequences, FiniteSets, TLC

\* ------------------------------------------------------------------ bounds
\* supply of uuid4 file ids: the number of upload attempts of a behaviour
MaxFiles == 2
\* the number of generator invocations of a behaviour
MaxGen == 1

\* the longest text given to the text processor
MaxText == 5
\* how far beyond the query limit of delete_file_chunks documents grow
MaxExcess == 50
\* the calls of check_rate_limit in a behaviour, and the seconds that pass
MaxCalls == 4
MaxSeconds == 3
\* the requests the event loop holds at a time: those in progress and the
\* asks that have returned
MaxTasks == 2

\* ------------------------------------------------------- program constants
REDIS_TTL == 3600
MAX_CHUNKS_PER_QUERY == 5
DEFAULT_SYSTEM_PROMPT == <<"c">>

\* --------------------------------------------------------------- input sets
Users == {"u1", "u2"}
\* who uploads which file name
UploadInputs == {<<"u1", "a.pdf">>, <<"u2", "b.pdf">>}
\* the uploaded documents, by the number of chunks chunk_text makes of them
Documents == {0, 3}
\* the documents uploaded under Spec
AskDocuments == {2}
\* strings are sequences of characters; the questions of AskInputs and the
\* prompts are chosen so that two different (question, system prompt) pairs
\* have the same concatenation
Prompts == {<<"c">>, <<"b", "c">>}
\* who asks what; u1 is the tenant under study, who also changes the
\* system prompt and deletes, u2 the other tenant, who only uploads
AskInputs == {<<"u1", <<"a">>>>, <<"u1", <<"a", "b">>>>}
Active == {"u1"}
\* the text the i-th generator invocation returns: the model never
\* returns the same text twice
Answer(i) == <<"answer", i>>
\* the per-process seeds of Python's str hash (PYTHONHASHSEED=random)
Seeds == {0, 1}
\* how much time passes in one step of the clock
Elapses == {REDIS_TTL \div 2}

\* a fault is the remote call that fails, <<call, ordinal>>
NoFault == <<"none", 0>>

VARIABLES
  index,       \* Pinecone: the set of stored vectors (id + metadata)
  files,       \* Postgres table files: set of rows
  file_count,  \* Postgres users.file_count, per user
  config,      \* Postgres users.config['system_prompt'], per user
  s3,          \* S3 bucket: the set of object keys
  cache,       \* Redis: key -> [value, ttl]
  hashseed,    \* the str-hash seed of the serving process
  nextFile,    \* the next uuid4 file id
  genCount,    \* generator invocations so far
  purged,      \* per user: delete_all_user_data completed, no upload since
  last,        \* the response in flight: what the handler did and returned
  tasks,       \* the coroutines of the event loop: position and locals
  fcall        \* a function applied on its own: arguments and result

vars == <<index, files, file_count, config, s3, cache, hashseed, nextFile,
          genCount, purged, last, tasks, fcall>>

\* ------------------------------------------------------------- pure helpers
CharCode(c) == CASE c = "a" -> 1 [] c = "b" -> 2 [] c = "c" -> 3 [] OTHER -> 4

HashMod == 2 ^ 16

RECURSIVE HashFrom(_, _)
HashFrom(h, str) ==
  IF str = <<>> THEN h
  ELSE HashFrom((h * 31 + CharCode(Head(str))) % HashMod, Tail(str))

\* hash(str): Python's seeded string hash, here a seeded polynomial hash
PyHash(seed, str) == HashFrom((seed * 7919) % HashMod, str)

\* cache_key = f"rag:{user_id}:{hash(question + system_prompt)}"
CacheKey(seed, user_id, question, system_prompt) ==
  <<"rag", user_id, PyHash(seed, question \o system_prompt)>>

\* mutant: the serialised text leaves the sources out
JsonDumps_NoSources(r) == <<"answer", r.answer, "sources", <<>>,
                            "chunk_count", r.chunk_count>>

\* json.dumps(response_data): the dict as its serialised text
JsonDumps(r) == <<"answer", r.answer, "sources", r.sources,
                  "chunk_count", r.chunk_count>>

\* json.loads(cached_response)
JsonLoads(t) == [answer |-> t[2], sources |-> t[4], chunk_count |-> t[6]]

NoContextAnswer == <<"I don't have any relevant documents", 0>>

NoContextResponse ==
  [answer |-> NoContextAnswer, sources |-> <<>>, chunk_count |-> 0]

\* no response: the handler raised, the endpoint answers HTTP 500
Raised == [answer |-> <<"HTTP 500", 0>>, sources |-> <<>>, chunk_count |-> 0]

\* ------------------------------------------------------------ vector store
\* the Titan embedding of a text, as one small number per text
EmbedQuestion(q) == Len(q)
EmbedContent(content) == content.ord % 3

\* chunk ids are uuid4 strings; here (file id, ordinal), unique per chunk
ChunkId(file_id, k) == <<file_id, k>>

\* TextProcessor._create_chunk for the k-th chunk of a document
CreateChunk(file_id, filename, k) ==
  [id |-> ChunkId(file_id, k), file_id |-> file_id, filename |-> filename,
   content |-> [filename |-> filename, ord |-> k]]

\* TextProcessor.chunk_text as far as ingestion needs it: n chunks
Chunks(file_id, filename, n) ==
  [k \in 1..n |-> CreateChunk(file_id, filename, k)]

\* the vector store_chunks builds for a chunk
MakeVector(chunk, user_id) ==
  [id |-> <<user_id, chunk.id>>,
   values |-> EmbedContent(chunk.content),
   metadata |-> [user_id |-> user_id, file_id |-> chunk.file_id,
                 filename |-> chunk.filename, full_content |-> chunk.content]]

\* index.upsert(vectors): insert, replacing vectors with the same id
Upsert(idx, vectors) ==
  {e \in idx : \A v \in vectors : v.id # e.id} \cup vectors

\* a metadata filter is a set of <<field, required value>> pairs
NoFilter == {}
MatchesFilter(e, filter) ==
  \A p \in filter : e.metadata[p[1]] = p[2]

\* similarity of a stored vector to the query vector (higher = closer)
Score(qv, e) == 3 - (IF qv > e.values THEN qv - e.values ELSE e.values - qv)

IdLess(a, b) ==
  \/ a[2][1] < b[2][1]
  \/ a[2][1] = b[2][1] /\ a[2][2] < b[2][2]
  \/ a[2] = b[2] /\ a[1] = "u1" /\ b[1] = "u2"

Better(qv, a, b) ==
  \/ Score(qv, a) > Score(qv, b)
  \/ Score(qv, a) = Score(qv, b) /\ (a.id = b.id \/ IdLess(a.id, b.id))

RECURSIVE TopK(_, _, _)
TopK(S, qv, k) ==
  IF k = 0 \/ S = {} THEN <<>>
  ELSE LET best == CHOOSE a \in S : \A b \in S : Better(qv, a, b)
       IN <<[id |-> best.id, score |-> Score(qv, best),
             metadata |-> best.metadata]>> \o TopK(S \ {best}, qv, k - 1)

\* index.query(vector, top_k, include_metadata=True, filter): results['matches']
IndexQuery(idx, qv, top_k, filter) ==
  TopK({e \in idx : MatchesFilter(e, filter)}, qv, top_k)

\* index.delete(ids=...)
DeleteIds(idx, ids) == {e \in idx : e.id \notin ids}

\* index.delete(filter=...)
DeleteFilter(idx, filter) == {e \in idx : ~MatchesFilter(e, filter)}

\* -------------------------------------------------------- EmbeddingService
\* one vector-store call, as the index sees it
VCall(op, filter, ids) == [op |-> op, filter |-> filter, ids |-> ids]

\* the for loop of store_chunks from chunk k on: the vectors list it has
\* built when it ends or when _generate_embedding raises
RECURSIVE EmbedLoop(_, _, _, _)
EmbedLoop(chunks, user_id, k, fault) ==
  IF k > Len(chunks) THEN [ok |-> TRUE, vectors |-> {}, calls |-> 0]
  ELSE IF fault = <<"embed", k>>
  THEN [ok |-> FALSE, vectors |-> {}, calls |-> 1]
  ELSE LET rest == EmbedLoop(chunks, user_id, k + 1, fault)
       IN [ok |-> rest.ok,
           vectors |-> {MakeVector(chunks[k], user_id)} \cup rest.vectors,
           calls |-> rest.calls + 1]

\* mutant: a failed upsert is logged and swallowed
StoreChunks_SwallowUpsert(idx, chunks, user_id, fault) ==
  LET emb == EmbedLoop(chunks, user_id, 1, fault)
      ids == {v.id : v \in emb.vectors}
  IN IF ~emb.ok
     THEN [ok |-> FALSE, index |-> idx, vcalls |-> <<>>]
     ELSE IF fault = <<"upsert", 0>>
     THEN [ok |-> TRUE, index |-> idx,
           vcalls |-> <<VCall("upsert", NoFilter, ids)>>]
     ELSE [ok |-> TRUE, index |-> Upsert(idx, emb.vectors),
           vcalls |-> <<VCall("upsert", NoFilter, ids)>>]

\* mutant: each vector is upserted as soon as it is embedded
StoreChunks_UpsertEach(idx, chunks, user_id, fault) ==
  LET emb == EmbedLoop(chunks, user_id, 1, fault)
      ids == {v.id : v \in emb.vectors}
  IN IF fault = <<"upsert", 0>>
     THEN [ok |-> FALSE, index |-> idx,
           vcalls |-> <<VCall("upsert", NoFilter, ids)>>]
     ELSE [ok |-> emb.ok, index |-> Upsert(idx, emb.vectors),
           vcalls |-> <<VCall("upsert", NoFilter, ids)>>]

\* EmbeddingService.store_chunks
StoreChunks(idx, chunks, user_id, fault) ==
  LET emb == EmbedLoop(chunks, user_id, 1, fault)
      ids == {v.id : v \in emb.vectors}
  IN IF ~emb.ok
     THEN [ok |-> FALSE, index |-> idx, vcalls |-> <<>>]
     ELSE IF fault = <<"upsert", 0>>
     THEN [ok |-> FALSE, index |-> idx,
           vcalls |-> <<VCall("upsert", NoFilter, ids)>>]
     ELSE [ok |-> TRUE, index |-> Upsert(idx, emb.vectors),
           vcalls |-> <<VCall("upsert", NoFilter, ids)>>]

\* mutant: the query is sent without the user filter
SearchFilter_None(user_id) == NoFilter

\* the filter search_similar_chunks passes to index.query
SearchFilter(user_id) == {<<"user_id", user_id>>}

\* EmbeddingService.search_similar_chunks
SearchSimilarChunks(idx, query, user_id, top_k, fault) ==
  IF fault = <<"embed", 0>>
  THEN [ok |-> FALSE, chunks |-> <<>>, matches |-> <<>>,
        embedCalls |-> 1, vcalls |-> <<>>]
  ELSE LET filter == SearchFilter(user_id)
           call == VCall("query", filter, {})
       IN IF fault = <<"query", 0>>
          THEN [ok |-> FALSE, chunks |-> <<>>, matches |-> <<>>,
                embedCalls |-> 1, vcalls |-> <<call>>]
          ELSE LET matches == IndexQuery(idx, EmbedQuestion(query), top_k, filter)
               IN [ok |-> TRUE,
                   chunks |-> [i \in DOMAIN matches |->
                                 [content |-> matches[i].metadata.full_content,
                                  filename |-> matches[i].metadata.filename,
                                  score |-> matches[i].score]],
                   matches |-> matches,
                   embedCalls |-> 1, vcalls |-> <<call>>]

DELETE_TOP_K == 10000

\* EmbeddingService.delete_file_chunks
DeleteFileChunks(idx, file_id, user_id, fault) ==
  LET filter == {<<"user_id", user_id>>, <<"file_id", file_id>>}
      q == VCall("query", filter, {})
  IN IF fault = <<"vs_query", 0>>
     THEN [ok |-> FALSE, index |-> idx, vcalls |-> <<q>>]
     ELSE LET matches == IndexQuery(idx, 0, DELETE_TOP_K, filter)
              vector_ids == {matches[i].id : i \in DOMAIN matches}
              d == VCall("delete", NoFilter, vector_ids)
          IN IF vector_ids = {}
             THEN [ok |-> TRUE, index |-> idx, vcalls |-> <<q>>]
             ELSE IF fault = <<"vs_delete", 0>>
             THEN [ok |-> FALSE, index |-> idx, vcalls |-> <<q, d>>]
             ELSE [ok |-> TRUE, index |-> DeleteIds(idx, vector_ids),
                   vcalls |-> <<q, d>>]

\* EmbeddingService.delete_all_user_chunks
DeleteAllUserChunks(idx, user_id, fault) ==
  LET filter == {<<"user_id", user_id>>}
      d == VCall("delete", filter, {})
  IN IF fault = <<"vs_delete", 0>>
     THEN [ok |-> FALSE, index |-> idx, vcalls |-> <<d>>]
     ELSE [ok |-> TRUE, index |-> DeleteFilter(idx, filter), vcalls |-> <<d>>]

\* --------------------------------------------------------------- RAGService
\* mutant: the lookup never finds the entry
CacheHas_Never(c, key) == FALSE

\* redis_client.get(key): the stored bytes, or None
CacheHas(c, key) == key \in DOMAIN c

\* mutant: the write is dropped
CacheSetex_Drop(c, key, ttl, value, ghost) == c

\* redis_client.setex(key, ttl, value). An entry also carries ghost fields
\* that Redis does not store: by (the ask that generated it), seed (the hash
\* seed it was keyed under), resp (the response that ask returned) and
\* owners (the tenants whose vectors it cites)
CacheSetex(c, key, ttl, value, ghost) ==
  [k \in DOMAIN c \cup {key} |->
     IF k = key
     THEN [value |-> value, ttl |-> ttl, by |-> ghost.by, seed |-> ghost.seed,
           resp |-> ghost.resp, owners |-> ghost.owners]
     ELSE c[k]]

\* "\n\n".join(f"Source: {filename}\nContent: {content}" for chunk in chunks)
Context(chunks) ==
  [i \in DOMAIN chunks |->
     <<"Source", chunks[i].filename, "Content", chunks[i].content>>]

FullPrompt(system_prompt, context, question) ==
  <<system_prompt, "Context from uploaded documents:", context,
    "Question:", question, "Please provide a comprehensive answer">>

\* mutant: the exception is swallowed and an empty text returned
CallBedrockClaude_Swallow(prompt, fault, gen) ==
  IF fault = <<"generate", 0>>
  THEN [ok |-> TRUE, text |-> <<"", 0>>, calls |-> 1]
  ELSE [ok |-> TRUE, text |-> gen, calls |-> 1]

\* RAGService._call_bedrock_claude: gen is the text the model returns
CallBedrockClaude(prompt, fault, gen) ==
  IF fault = <<"generate", 0>>
  THEN [ok |-> FALSE, text |-> <<"", 0>>, calls |-> 1]
  ELSE [ok |-> TRUE, text |-> gen, calls |-> 1]

\* what generate_response hands back, with what it did on the way
AskResult(ok, resp, c, path, emb, qry, gen, sets, vcalls, matches, owners) ==
  [ok |-> ok, resp |-> resp, cache |-> c, path |-> path,
   embedCalls |-> emb, queryCalls |-> qry, genCalls |-> gen,
   cacheSets |-> sets, vcalls |-> vcalls, matches |-> matches,
   owners |-> owners]

\* lines 28-30: the cached bytes are returned decoded
CacheHit(c, key) ==
  AskResult(TRUE, JsonLoads(c[key].value), c, "hit", 0, 0, 0, 0, <<>>, <<>>,
            c[key].owners)

\* mutant: the fallback answer is cached like a generated one
NoContextFallback_Cached(c, key, search) ==
  AskResult(TRUE, NoContextResponse,
            CacheSetex(c, key, REDIS_TTL, JsonDumps(NoContextResponse),
                       [by |-> <<>>, seed |-> 0, resp |-> NoContextResponse,
                        owners |-> {}]),
            "fallback", search.embedCalls, Len(search.vcalls), 0, 1,
            search.vcalls, search.matches, {})

\* lines 39-45: no similar chunks
NoContextFallback(c, key, search) ==
  AskResult(TRUE, NoContextResponse, c, "fallback", search.embedCalls,
            Len(search.vcalls), 0, 0, search.vcalls, search.matches, {})

\* lines 63-84: generate, cache, return; any exception is logged and re-raised
Generation(c, key, origin, search, system_prompt, question, fault, gen) ==
  LET similar_chunks == search.chunks
      full_prompt == FullPrompt(system_prompt, Context(similar_chunks), question)
      response == CallBedrockClaude(full_prompt, fault, gen)
      response_data ==
        [answer |-> response.text,
         sources |-> [i \in DOMAIN similar_chunks |->
                        [filename |-> similar_chunks[i].filename,
                         score |-> similar_chunks[i].score]],
         chunk_count |-> Len(similar_chunks)]
      owners == {search.matches[i].id[1] : i \in DOMAIN search.matches}
  IN IF ~response.ok
     THEN AskResult(FALSE, Raised, c, "generate_failed",
                    search.embedCalls, Len(search.vcalls), response.calls, 0,
                    search.vcalls, search.matches, {})
     ELSE IF fault = <<"cache_set", 0>>
     THEN AskResult(FALSE, Raised, c, "cache_set_failed",
                    search.embedCalls, Len(search.vcalls), response.calls, 1,
                    search.vcalls, search.matches, {})
     ELSE AskResult(TRUE, response_data,
                    CacheSetex(c, key, REDIS_TTL, JsonDumps(response_data),
                               [by |-> origin.by, seed |-> origin.seed,
                                resp |-> response_data, owners |-> owners]),
                    "generated", search.embedCalls, Len(search.vcalls),
                    response.calls, 1, search.vcalls, search.matches, owners)

\* RAGService.generate_response
GenerateResponse(c, idx, seed, question, user_id, system_prompt, fault, gen) ==
  LET cache_key == CacheKey(seed, user_id, question, system_prompt)
  IN IF fault = <<"cache_get", 0>>
     THEN AskResult(FALSE, Raised, c, "cache_get_failed",
                    0, 0, 0, 0, <<>>, <<>>, {})
     ELSE IF CacheHas(c, cache_key) THEN CacheHit(c, cache_key)
     ELSE LET search == SearchSimilarChunks(idx, question, user_id,
                                            MAX_CHUNKS_PER_QUERY, fault)
          IN IF ~search.ok
             THEN AskResult(FALSE, Raised, c, "search_failed",
                            search.embedCalls, Len(search.vcalls), 0, 0,
                            search.vcalls, <<>>, {})
             ELSE IF search.chunks = <<>>
             THEN NoContextFallback(c, cache_key, search)
             ELSE Generation(c, cache_key,
                             [by |-> <<user_id, question, system_prompt>>,
                              seed |-> seed],
                             search, system_prompt, question, fault, gen)

\* -------------------------------------------------------------- FileService
S3Key(user_id, file_id, filename) == <<user_id, file_id, filename>>

\* mutant: the rows of every user are returned
GetUserFiles_All(rows, user_id) == rows

\* Database.get_user_files
GetUserFiles(rows, user_id) == {r \in rows : r.user_id = user_id}

FileRow(file_id, user_id, filename, chunk_count) ==
  [id |-> file_id, user_id |-> user_id, filename |-> filename,
   chunk_count |-> chunk_count]

SvcResult(ok, bucket, idx, rows, vcalls, fired) ==
  [ok |-> ok, s3 |-> bucket, index |-> idx, files |-> rows,
   vcalls |-> vcalls, fired |-> fired]

\* FileService.process_file for a document of n chunks
ProcessFile(bucket, idx, rows, file_id, filename, n, user_id, fault) ==
  LET s3_key == S3Key(user_id, file_id, filename)
      put == bucket \cup {s3_key}
      chunks == Chunks(file_id, filename, n)
      stored == StoreChunks(idx, chunks, user_id, fault)
  IN IF fault = <<"s3_put", 0>>
     THEN SvcResult(FALSE, bucket, idx, rows, <<>>, TRUE)
     ELSE IF fault = <<"extract", 0>>
     THEN SvcResult(FALSE, put, idx, rows, <<>>, TRUE)
     ELSE IF ~stored.ok
     THEN SvcResult(FALSE, put, stored.index, rows, stored.vcalls, TRUE)
     ELSE IF fault = <<"db_add", 0>>
     THEN SvcResult(FALSE, put, stored.index, rows, stored.vcalls, TRUE)
     ELSE SvcResult(TRUE, put, stored.index,
                    rows \cup {FileRow(file_id, user_id, filename, n)},
                    stored.vcalls, FALSE)

\* mutant: the file record is deleted before the vectors
DeleteFileSvc_RecordFirst(bucket, idx, rows, file_id, user_id, fault) ==
  LET mine == GetUserFiles(rows, user_id)
      found == {f \in mine : f.id = file_id}
      rows2 == {r \in rows : ~(r.id = file_id /\ r.user_id = user_id)}
  IN IF fault = <<"db_list", 0>>
     THEN SvcResult(FALSE, bucket, idx, rows, <<>>, TRUE)
     ELSE IF found = {}
     THEN SvcResult(FALSE, bucket, idx, rows, <<>>, FALSE)
     ELSE LET file_info == CHOOSE f \in found : TRUE
              s3_key == S3Key(user_id, file_id, file_info.filename)
              bucket2 == IF fault = <<"s3_delete", 0>> THEN bucket
                         ELSE bucket \ {s3_key}
              del == DeleteFileChunks(idx, file_id, user_id, fault)
          IN IF fault = <<"db_delete", 0>>
             THEN SvcResult(FALSE, bucket2, idx, rows, <<>>, TRUE)
             ELSE IF ~del.ok
             THEN SvcResult(FALSE, bucket2, del.index, rows2, del.vcalls, TRUE)
             ELSE SvcResult(TRUE, bucket2, del.index, rows2,
                            del.vcalls, fault = <<"s3_delete", 0>>)

\* FileService.delete_file
DeleteFileSvc(bucket, idx, rows, file_id, user_id, fault) ==
  LET mine == GetUserFiles(rows, user_id)
      found == {f \in mine : f.id = file_id}
  IN IF fault = <<"db_list", 0>>
     THEN SvcResult(FALSE, bucket, idx, rows, <<>>, TRUE)
     ELSE IF found = {}
     THEN SvcResult(FALSE, bucket, idx, rows, <<>>, FALSE)
     ELSE LET file_info == CHOOSE f \in found : TRUE
              s3_key == S3Key(user_id, file_id, file_info.filename)
              bucket2 == IF fault = <<"s3_delete", 0>> THEN bucket
                         ELSE bucket \ {s3_key}
              del == DeleteFileChunks(idx, file_id, user_id, fault)
          IN IF ~del.ok
             THEN SvcResult(FALSE, bucket2, del.index, rows, del.vcalls, TRUE)
             ELSE IF fault = <<"db_delete", 0>>
             THEN SvcResult(FALSE, bucket2, del.index, rows, del.vcalls, TRUE)
             ELSE SvcResult(TRUE, bucket2, del.index,
                            {r \in rows : ~(r.id = file_id /\ r.user_id = user_id)},
                            del.vcalls, fault = <<"s3_delete", 0>>)

\* FileService.delete_all_user_data
DeleteAllUserData(bucket, idx, rows, user_id, fault) ==
  LET mine == GetUserFiles(rows, user_id)
      objects == {S3Key(user_id, f.id, f.filename) : f \in mine}
      s3failed == fault = <<"s3_delete", 0>> /\ objects # {}
      bucket2 == IF s3failed THEN bucket ELSE bucket \ objects
      del == DeleteAllUserChunks(idx, user_id, fault)
  IN IF fault = <<"db_list", 0>>
     THEN SvcResult(FALSE, bucket, idx, rows, <<>>, TRUE)
     ELSE IF ~del.ok
     THEN SvcResult(FALSE, bucket2, del.index, rows, del.vcalls, TRUE)
     ELSE IF fault = <<"db_delete", 0>>
     THEN SvcResult(FALSE, bucket2, del.index, rows, del.vcalls, TRUE)
     ELSE SvcResult(TRUE, bucket2, del.index,
                    {r \in rows : r.user_id # user_id}, del.vcalls, s3failed)

\* ------------------------------------------------------------- observation
Obs(op, user, file, q, sp, status, r, fault, changed) ==
  [op |-> op, user |-> user, file |-> file, question |-> q, prompt |-> sp,
   status |-> status, resp |-> r.resp, path |-> r.path,
   embedCalls |-> r.embedCalls, queryCalls |-> r.queryCalls,
   genCalls |-> r.genCalls, cacheSets |-> r.cacheSets, vcalls |-> r.vcalls,
   matches |-> r.matches, owners |-> r.owners, fault |-> fault,
   changed |-> changed, repeat |-> FALSE, prev |-> Raised]

\* the observation of a handler that is no ask
Plain(vcalls) ==
  AskResult(TRUE, Raised, <<>>, "", 0, 0, 0, 0, vcalls, <<>>, {})

Changed(idx, rows, counts, bucket, c) ==
  (IF idx # index THEN {"index"} ELSE {}) \cup
  (IF rows # files THEN {"files"} ELSE {}) \cup
  (IF counts # file_count THEN {"file_count"} ELSE {}) \cup
  (IF bucket # s3 THEN {"s3"} ELSE {}) \cup
  (IF c # cache THEN {"cache"} ELSE {})

\* ------------------------------------------------------------------- state
EmptyMap == [k \in {} |-> 0]

\* no handler has a response in flight
Idle == Obs("idle", "u1", 0, <<>>, <<>>, "ok", Plain(<<>>), NoFault, {})

\* no coroutine is scheduled
NoTasks == <<>>

\* no function is applied on its own
NoCall == [fn |-> "none"]

Init ==
  /\ index = {}
  /\ files = {}
  /\ file_count = [u \in Users |-> 0]
  /\ config = [u \in Users |-> DEFAULT_SYSTEM_PROMPT]
  /\ s3 = {}
  /\ cache = EmptyMap
  /\ hashseed = 0
  /\ nextFile = 1
  /\ genCount = 0
  /\ purged = [u \in Users |-> FALSE]
  /\ last = Idle
  /\ tasks = NoTasks
  /\ fcall = NoCall

AskFaults == {NoFault, <<"db_config", 0>>, <<"cache_get", 0>>, <<"embed", 0>>,
              <<"query", 0>>, <<"generate", 0>>, <<"cache_set", 0>>}

\* whether the ask reached the call that the fault drawn for it fails
AskFired(r, fault) ==
  \/ fault \in {<<"db_config", 0>>, <<"cache_get", 0>>}
  \/ fault = <<"embed", 0>> /\ r.embedCalls > 0
  \/ fault = <<"query", 0>> /\ r.queryCalls > 0
  \/ fault = <<"generate", 0>> /\ r.genCalls > 0
  \/ fault = <<"cache_set", 0>> /\ r.cacheSets > 0

\* POST /ask (ask_question): the system prompt is read from the user's
\* config; any exception of generate_response becomes HTTP 500
AskQuestion(user, question, fault, repeat, prev) ==
  LET system_prompt == config[user]
      gen == Answer(genCount + 1)
      r == IF fault = <<"db_config", 0>>
           THEN AskResult(FALSE, Raised, cache, "config_failed",
                          0, 0, 0, 0, <<>>, <<>>, {})
           ELSE GenerateResponse(cache, index, hashseed, question, user,
                                 system_prompt, fault, gen)
  IN /\ genCount + r.genCalls <= MaxGen
     /\ genCount' = genCount + r.genCalls
     /\ cache' = r.cache
     /\ last' = [Obs("ask", user, 0, question, system_prompt,
                     IF r.ok THEN "ok" ELSE "error", r,
                     IF AskFired(r, fault) THEN fault ELSE NoFault,
                     Changed(index, files, file_count, s3, r.cache))
                 EXCEPT !.repeat = repeat, !.prev = prev]
     /\ UNCHANGED <<tasks, fcall, index, files, file_count, config, s3, hashseed, nextFile,
                    purged>>

\* a client asks a question
Ask(user, question, fault) ==
  /\ last = Idle
  /\ AskQuestion(user, question, fault, FALSE, Raised)

\* the client that was just answered sends the same question again; the
\* observation keeps the first response beside the second
Repeat ==
  /\ last.op = "ask"
  /\ last.status = "ok"
  /\ ~last.repeat
  /\ AskQuestion(last.user, last.question, NoFault, TRUE, last.resp)

UploadFaults(n) ==
  {NoFault, <<"s3_put", 0>>, <<"extract", 0>>, <<"upsert", 0>>,
   <<"db_add", 0>>, <<"db_incr", 0>>} \cup {<<"embed", k>> : k \in 1..n}

\* POST /upload (upload_file) of a valid PDF whose text makes n chunks
Upload(user, filename, n, fault) ==
  LET r == ProcessFile(s3, index, files, nextFile, filename, n, user, fault)
      ok == r.ok /\ fault # <<"db_incr", 0>>
      counts == IF ok THEN [file_count EXCEPT ![user] = @ + 1] ELSE file_count
  IN /\ last = Idle
     /\ nextFile <= MaxFiles
     /\ nextFile' = nextFile + 1
     /\ s3' = r.s3
     /\ index' = r.index
     /\ files' = r.files
     /\ file_count' = counts
     /\ purged' = [purged EXCEPT ![user] = FALSE]
     /\ last' = [Obs("upload", user, nextFile, <<>>, <<>>,
                     IF ok THEN "ok" ELSE "error", Plain(r.vcalls), fault,
                     Changed(r.index, r.files, counts, r.s3, cache))
                 EXCEPT !.resp.chunk_count = n]
     /\ UNCHANGED <<tasks, fcall, config, cache, hashseed, genCount>>

DeleteFaults == {NoFault, <<"db_list", 0>>, <<"s3_delete", 0>>,
                 <<"vs_query", 0>>, <<"vs_delete", 0>>, <<"db_delete", 0>>,
                 <<"db_decr", 0>>}

\* Database.decrement_user_file_count: GREATEST(file_count - 1, 0)
Decrement(counts, user) ==
  [counts EXCEPT ![user] = IF @ - 1 > 0 THEN @ - 1 ELSE 0]

\* DELETE /files/{file_id} (delete_file)
DeleteFile(user, file_id, fault) ==
  LET r == DeleteFileSvc(s3, index, files, file_id, user, fault)
      ok == r.ok /\ fault # <<"db_decr", 0>>
      counts == IF ok THEN Decrement(file_count, user) ELSE file_count
      fired == r.fired \/ (r.ok /\ fault = <<"db_decr", 0>>)
  IN /\ last = Idle
     /\ s3' = r.s3
     /\ index' = r.index
     /\ files' = r.files
     /\ file_count' = counts
     /\ last' = Obs("delete_file", user, file_id, <<>>, <<>>,
                    IF ok THEN "ok" ELSE "error", Plain(r.vcalls),
                    IF fired THEN fault ELSE NoFault,
                    Changed(r.index, r.files, counts, r.s3, cache))
     /\ UNCHANGED <<tasks, fcall, config, cache, hashseed, nextFile, genCount, purged>>

DeleteAllFaults == {NoFault, <<"db_list", 0>>, <<"s3_delete", 0>>,
                    <<"vs_delete", 0>>, <<"db_delete", 0>>, <<"db_reset", 0>>}

\* DELETE /user/data (delete_all_user_data)
DeleteAll(user, fault) ==
  LET r == DeleteAllUserData(s3, index, files, user, fault)
      ok == r.ok /\ fault # <<"db_reset", 0>>
      counts == IF ok THEN [file_count EXCEPT ![user] = 0] ELSE file_count
      fired == r.fired \/ (r.ok /\ fault = <<"db_reset", 0>>)
  IN /\ last = Idle
     /\ s3' = r.s3
     /\ index' = r.index
     /\ files' = r.files
     /\ file_count' = counts
     /\ purged' = [purged EXCEPT ![user] = @ \/ r.ok]
     /\ last' = Obs("delete_all", user, 0, <<>>, <<>>,
                    IF ok THEN "ok" ELSE "error", Plain(r.vcalls),
                    IF fired THEN fault ELSE NoFault,
                    Changed(r.index, r.files, counts, r.s3, cache))
     /\ UNCHANGED <<tasks, fcall, config, cache, hashseed, nextFile, genCount>>

\* PUT /config (update_config) with a system prompt
UpdateConfig(user, system_prompt) ==
  /\ last = Idle
  /\ config[user] # system_prompt
  /\ config' = [config EXCEPT ![user] = system_prompt]
  /\ UNCHANGED <<tasks, fcall, index, files, file_count, s3, cache, hashseed, nextFile,
                 genCount, purged, last>>

\* the serving process is replaced by one with a fresh str-hash seed
\* (a restart, or another worker taking the next requests)
Restart ==
  /\ last = Idle
  /\ hashseed + 1 \in Seeds
  /\ hashseed' = hashseed + 1
  /\ UNCHANGED <<tasks, fcall, index, files, file_count, config, s3, cache, nextFile,
                 genCount, purged, last>>

\* d seconds pass: Redis counts the entries' ttl down and evicts at 0
Age(c, d) ==
  LET live == {k \in DOMAIN c : c[k].ttl > d}
  IN [k \in live |-> [c[k] EXCEPT !.ttl = @ - d]]

Elapse(d) ==
  /\ last = Idle
  /\ cache # EmptyMap
  /\ cache' = Age(cache, d)
  /\ UNCHANGED <<tasks, fcall, index, files, file_count, config, s3, hashseed, nextFile,
                 genCount, purged, last>>

\* the response reaches the client
Return ==
  /\ last # Idle
  /\ last' = Idle
  /\ UNCHANGED <<tasks, fcall, index, files, file_count, config, s3, cache, hashseed,
                 nextFile, genCount, purged>>

\* ------------------------------------------------------------ TextProcessor
\* a text is a sequence of characters
Whitespace == {" "}
Terminators == {".", "!", "?"}
\* characters that are neither word characters, whitespace nor the
\* punctuation _clean_text keeps
Special == {"#"}

MinOf(S) == CHOOSE x \in S : \A y \in S : x <= y
MaxOf(S) == CHOOSE x \in S : \A y \in S : x >= y

\* str.strip()
Strip(str) ==
  LET inked == {i \in DOMAIN str : str[i] \notin Whitespace}
  IN IF inked = {} THEN <<>> ELSE SubSeq(str, MinOf(inked), MaxOf(inked))

\* the maximal runs of characters outside seps, in order: str.split() for
\* seps = whitespace, and the non-empty pieces of re.split(r'[.!?]+', str)
RECURSIVE Fields(_, _)
Fields(str, seps) ==
  IF str = <<>> THEN <<>>
  ELSE IF Head(str) \in seps THEN Fields(Tail(str), seps)
  ELSE LET stops == {i \in DOMAIN str : str[i] \in seps}
           n == IF stops = {} THEN Len(str) ELSE MinOf(stops) - 1
       IN <<SubSeq(str, 1, n)>> \o Fields(SubSeq(str, n + 1, Len(str)), seps)

\* " ".join(words)
RECURSIVE Join(_)
Join(words) ==
  IF words = <<>> THEN <<>>
  ELSE IF Len(words) = 1 THEN words[1]
  ELSE words[1] \o <<" ">> \o Join(Tail(words))

\* re.sub(r'\s+', ' ', text)
RECURSIVE CollapseWhitespace(_)
CollapseWhitespace(str) ==
  IF str = <<>> THEN <<>>
  ELSE IF Head(str) \in Whitespace
  THEN IF Len(str) > 1 /\ str[2] \in Whitespace
       THEN CollapseWhitespace(Tail(str))
       ELSE <<" ">> \o CollapseWhitespace(Tail(str))
  ELSE <<Head(str)>> \o CollapseWhitespace(Tail(str))

\* TextProcessor._clean_text
CleanText(text) ==
  LET spaced == CollapseWhitespace(text)
      kept == [i \in DOMAIN spaced |->
                 IF spaced[i] \in Special THEN " " ELSE spaced[i]]
  IN Strip(kept)

\* TextProcessor._split_into_sentences
SplitIntoSentences(text) ==
  LET pieces == Fields(text, Terminators)
      stripped == [i \in DOMAIN pieces |-> Strip(pieces[i])]
  IN SelectSeq(stripped, LAMBDA piece : piece # <<>>)

\* words[start:] of Python, for any integer start
SliceFrom(words, start) ==
  LET n == Len(words)
      from == IF start < 0
              THEN (IF n + start > 0 THEN n + start ELSE 0)
              ELSE (IF start < n THEN start ELSE n)
  IN SubSeq(words, from + 1, n)

\* TextProcessor._get_overlap_text: words[-self.chunk_overlap // 10:], where
\* Python negates before it divides and // rounds towards minus infinity
GetOverlapText(text, chunk_overlap) ==
  LET words == Fields(text, Whitespace)
      overlap_words == SliceFrom(words, (0 - chunk_overlap) \div 10)
  IN Join(overlap_words)

\* TextProcessor._create_chunk for the k-th chunk of a document
CreateChunkFrom(content, file_id, filename, k) ==
  [id |-> ChunkId(file_id, k), file_id |-> file_id, filename |-> filename,
   content |-> <<"From file: ", filename, "\n\n">> \o Strip(content)]

\* the for loop of chunk_text from sentence i on
RECURSIVE ChunkLoop(_, _, _, _, _, _)
ChunkLoop(sentences, i, chunks, current_chunk, current_length, cfg) ==
  IF i > Len(sentences)
  THEN [chunks |-> chunks, current_chunk |-> current_chunk]
  ELSE LET sentence == sentences[i]
           sentence_length == Len(sentence)
           closes == /\ current_length + sentence_length > cfg.chunk_size
                     /\ current_chunk # <<>>
           chunks2 == IF closes
                      THEN Append(chunks,
                                  CreateChunkFrom(current_chunk, cfg.file_id,
                                                  cfg.filename, Len(chunks) + 1))
                      ELSE chunks
           chunk2 == IF closes
                     THEN GetOverlapText(current_chunk, cfg.chunk_overlap)
                     ELSE current_chunk
           length2 == IF closes THEN Len(chunk2) ELSE current_length
       IN ChunkLoop(sentences, i + 1, chunks2,
                    chunk2 \o sentence \o <<" ">>,
                    length2 + sentence_length + 1, cfg)

\* mutant: the chunk still open after the last sentence is not emitted
ChunkText_NoFinal(text, file_id, filename, chunk_size, chunk_overlap) ==
  LET sentences == SplitIntoSentences(CleanText(text))
      cfg == [chunk_size |-> chunk_size, chunk_overlap |-> chunk_overlap,
              file_id |-> file_id, filename |-> filename]
  IN ChunkLoop(sentences, 1, <<>>, <<>>, 0, cfg).chunks

\* TextProcessor.chunk_text with the configured chunk size and overlap
ChunkText(text, file_id, filename, chunk_size, chunk_overlap) ==
  LET sentences == SplitIntoSentences(CleanText(text))
      cfg == [chunk_size |-> chunk_size, chunk_overlap |-> chunk_overlap,
              file_id |-> file_id, filename |-> filename]
      end == ChunkLoop(sentences, 1, <<>>, <<>>, 0, cfg)
  IN IF Strip(end.current_chunk) # <<>>
     THEN Append(end.chunks,
                 CreateChunkFrom(end.current_chunk, file_id, filename,
                                 Len(end.chunks) + 1))
     ELSE end.chunks

\* the number of matches index.query returns of `stored` matching vectors
MatchCount(stored, top_k) == IF stored < top_k THEN stored ELSE top_k

\* EmbeddingService.delete_file_chunks by numbers: of `stored` vectors of
\* the file, how many the index still holds when it returns
DeleteFileChunksLeft(stored) ==
  LET matched == MatchCount(stored, DELETE_TOP_K)
  IN IF matched = 0 THEN stored ELSE stored - matched

\* -------------------------------------------------------------- event loop
\* uvicorn.run(app) serves every request as a coroutine of one event loop.
\* A coroutine gives the loop away only where it awaits the asyncpg pool;
\* the Redis, Bedrock, Pinecone and S3 clients are blocking, so the code
\* between two database calls runs as one step. A step of a task is the
\* code from its resumption up to and including the next database call.

\* a request as the loop holds it: its arguments, its position and locals
Task(op, user, file, filename, n, question) ==
  [op |-> op, user |-> user, file |-> file, filename |-> filename, n |-> n,
   question |-> question, pc |-> "start", system_prompt |-> <<>>,
   listed |-> {}, ok |-> TRUE, resp |-> Raised, path |-> "",
   genCalls |-> 0, cacheSets |-> 0,
   \* ghost fields of an ask: what held when it was accepted, which asks
   \* were in progress then, and which were waiting beside it when it had
   \* read the config
   cold |-> op = "ask" /\ cache = EmptyMap,
   indexed |-> op = "ask" /\ \E e \in index : e.metadata.user_id = user,
   peers |-> {k \in DOMAIN tasks : op = "ask" /\ tasks[k].op = "ask"
                                     /\ tasks[k].pc # "done"},
   ready |-> {}]

\* the loop accepts a request
Accept(t) ==
  LET free == (1..MaxTasks) \ DOMAIN tasks
      id == CHOOSE k \in free : \A j \in free : k <= j
  IN /\ free # {}
     /\ tasks' = [k \in DOMAIN tasks \cup {id} |->
                    IF k = id THEN t ELSE tasks[k]]

AcceptAsk(user, question) ==
  /\ Accept(Task("ask", user, 0, "", 0, question))
  /\ UNCHANGED <<index, files, file_count, config, s3, cache, hashseed,
                 nextFile, genCount, purged, last, fcall>>

\* the file id is the uuid4 that process_file draws
AcceptUpload(user, filename, n) ==
  /\ nextFile <= MaxFiles
  /\ Accept(Task("upload", user, nextFile, filename, n, <<>>))
  /\ nextFile' = nextFile + 1
  /\ UNCHANGED <<index, files, file_count, config, s3, cache, hashseed,
                 genCount, purged, last, fcall>>

AcceptDeleteFile(user, file_id) ==
  /\ Accept(Task("delete_file", user, file_id, "", 0, <<>>))
  /\ UNCHANGED <<index, files, file_count, config, s3, cache, hashseed,
                 nextFile, genCount, purged, last, fcall>>

AcceptDeleteAll(user) ==
  /\ Accept(Task("delete_all", user, 0, "", 0, <<>>))
  /\ UNCHANGED <<index, files, file_count, config, s3, cache, hashseed,
                 nextFile, genCount, purged, last, fcall>>

\* the coroutine of an upload or a delete ends; an ask that returned is
\* kept, with what it returned
Without(i) == [k \in DOMAIN tasks \ {i} |-> tasks[k]]

At(i, op, pc) ==
  /\ i \in DOMAIN tasks
  /\ tasks[i].op = op
  /\ tasks[i].pc = pc

\* ask_question up to Database.get_user_config
AskConfig(i) ==
  /\ At(i, "ask", "start")
  /\ tasks' = [tasks EXCEPT
                 ![i].pc = "configured",
                 ![i].system_prompt = config[tasks[i].user],
                 ![i].ready = {k \in DOMAIN tasks :
                                 /\ tasks[k].op = "ask"
                                 /\ tasks[k].pc = "configured"}]
  /\ UNCHANGED <<index, files, file_count, config, s3, cache, hashseed,
                 nextFile, genCount, purged, last, fcall>>

\* ask_question from the config on: generate_response awaits nothing that
\* suspends, it runs from the cache lookup to its return
AskGenerate(i) ==
  /\ At(i, "ask", "configured")
  /\ LET t == tasks[i]
         r == GenerateResponse(cache, index, hashseed, t.question, t.user,
                               t.system_prompt, NoFault,
                               Answer(genCount + 1))
     IN /\ genCount + r.genCalls <= MaxGen + 1
        /\ genCount' = genCount + r.genCalls
        /\ cache' = r.cache
        /\ tasks' = [tasks EXCEPT ![i].pc = "done", ![i].ok = r.ok,
                                  ![i].resp = r.resp, ![i].path = r.path,
                                  ![i].genCalls = r.genCalls,
                                  ![i].cacheSets = r.cacheSets]
  /\ UNCHANGED <<index, files, file_count, config, s3, hashseed, nextFile,
                 purged, last, fcall>>

\* upload_file up to Database.add_file_record in process_file
UploadStore(i) ==
  /\ At(i, "upload", "start")
  /\ LET t == tasks[i]
         r == ProcessFile(s3, index, files, t.file, t.filename, t.n, t.user,
                          NoFault)
     IN /\ s3' = r.s3
        /\ index' = r.index
        /\ files' = r.files
        /\ tasks' = [tasks EXCEPT ![i].pc = "recorded"]
  /\ UNCHANGED <<file_count, config, cache, hashseed, nextFile, genCount,
                 purged, last, fcall>>

\* upload_file: Database.increment_user_file_count and the return
UploadCount(i) ==
  /\ At(i, "upload", "recorded")
  /\ file_count' = [file_count EXCEPT ![tasks[i].user] = @ + 1]
  /\ tasks' = Without(i)
  /\ UNCHANGED <<index, files, config, s3, cache, hashseed, nextFile,
                 genCount, purged, last, fcall>>

\* delete_file and delete_all_user_data up to Database.get_user_files
ListFiles(i) ==
  /\ At(i, "delete_file", "start") \/ At(i, "delete_all", "start")
  /\ tasks' = [tasks EXCEPT ![i].pc = "listed",
                            ![i].listed = GetUserFiles(files, tasks[i].user)]
  /\ UNCHANGED <<index, files, file_count, config, s3, cache, hashseed,
                 nextFile, genCount, purged, last, fcall>>

\* FileService.delete_file from the rows get_user_files returned on, up to
\* Database.delete_file_record
DeleteFileListed(bucket, idx, rows, listed, file_id, user_id) ==
  LET found == {f \in listed : f.id = file_id}
  IN IF found = {}
     THEN SvcResult(FALSE, bucket, idx, rows, <<>>, FALSE)
     ELSE LET file_info == CHOOSE f \in found : TRUE
              s3_key == S3Key(user_id, file_id, file_info.filename)
              del == DeleteFileChunks(idx, file_id, user_id, NoFault)
          IN SvcResult(TRUE, bucket \ {s3_key}, del.index,
                       {r \in rows : ~(r.id = file_id /\ r.user_id = user_id)},
                       del.vcalls, FALSE)

\* FileService.delete_all_user_data from the rows get_user_files returned
\* on, up to Database.delete_all_user_files
DeleteAllListed(bucket, idx, rows, listed, user_id) ==
  LET objects == {S3Key(user_id, f.id, f.filename) : f \in listed}
      del == DeleteAllUserChunks(idx, user_id, NoFault)
  IN SvcResult(TRUE, bucket \ objects, del.index,
               {r \in rows : r.user_id # user_id}, del.vcalls, FALSE)

\* delete_file from the listing to Database.delete_file_record; 'File not
\* found' ends the request with HTTP 500
DeleteFileRemove(i) ==
  /\ At(i, "delete_file", "listed")
  /\ LET t == tasks[i]
         r == DeleteFileListed(s3, index, files, t.listed, t.file, t.user)
     IN /\ s3' = r.s3
        /\ index' = r.index
        /\ files' = r.files
        /\ tasks' = IF r.ok THEN [tasks EXCEPT ![i].pc = "removed"]
                     ELSE Without(i)
  /\ UNCHANGED <<file_count, config, cache, hashseed, nextFile, genCount,
                 purged, last, fcall>>

\* delete_file: Database.decrement_user_file_count and the return
DeleteFileCount(i) ==
  /\ At(i, "delete_file", "removed")
  /\ file_count' = Decrement(file_count, tasks[i].user)
  /\ tasks' = Without(i)
  /\ UNCHANGED <<index, files, config, s3, cache, hashseed, nextFile,
                 genCount, purged, last, fcall>>

\* delete_all_user_data from the listing to Database.delete_all_user_files
DeleteAllRemove(i) ==
  /\ At(i, "delete_all", "listed")
  /\ LET t == tasks[i]
         r == DeleteAllListed(s3, index, files, t.listed, t.user)
     IN /\ s3' = r.s3
        /\ index' = r.index
        /\ files' = r.files
        /\ tasks' = [tasks EXCEPT ![i].pc = "removed"]
  /\ UNCHANGED <<file_count, config, cache, hashseed, nextFile, genCount,
                 purged, last, fcall>>

\* delete_all_user_data: Database.reset_user_file_count and the return
DeleteAllReset(i) ==
  /\ At(i, "delete_all", "removed")
  /\ file_count' = [file_count EXCEPT ![tasks[i].user] = 0]
  /\ tasks' = Without(i)
  /\ UNCHANGED <<index, files, config, s3, cache, hashseed, nextFile,
                 genCount, purged, last, fcall>>

\* ---------------------------------------------------------- specifications
\* Spec: the query path with every fault of an ask, over a store that
\* tenants fill and empty without faults
Next ==
  \/ \E a \in AskInputs, f \in AskFaults : Ask(a[1], a[2], f)
  \/ Repeat
  \/ \E up \in UploadInputs, n \in AskDocuments :
       Upload(up[1], up[2], n, NoFault)
  \/ \E u \in Active, fid \in 1..MaxFiles : DeleteFile(u, fid, NoFault)
  \/ \E u \in Active : DeleteAll(u, NoFault)
  \/ \E u \in Active, sp \in Prompts : UpdateConfig(u, sp)
  \/ Restart
  \/ \E d \in Elapses : Elapse(d)
  \/ Return

Spec == Init /\ [][Next]_vars

\* SpecStore: ingestion and deletion with every fault of every remote call
NextStore ==
  \/ \E up \in UploadInputs, n \in Documents :
       \E f \in UploadFaults(n) : Upload(up[1], up[2], n, f)
  \/ \E u \in Users, fid \in 1..MaxFiles, f \in DeleteFaults :
       DeleteFile(u, fid, f)
  \/ \E u \in Users, f \in DeleteAllFaults : DeleteAll(u, f)
  \/ Return

SpecStore == Init /\ [][NextStore]_vars

\* SpecPure: functions applied on their own to every argument of a bounded set
Alphabet == {"a", "b", " ", ".", "#"}
\* the configured CHUNK_SIZE and CHUNK_OVERLAP, on the scale of the texts
ChunkSizes == {2, 3}
ChunkOverlaps == {0, 5, 10, 15}
\* documents by the number of vectors stored for them
StoredCounts == (0..MaxExcess) \cup
                ((DELETE_TOP_K - MaxExcess)..(DELETE_TOP_K + MaxExcess))

PureCall(fn, text, chunk_size, chunk_overlap, stored) ==
  [fn |-> fn, text |-> text, chunk_size |-> chunk_size,
   chunk_overlap |-> chunk_overlap, stored |-> stored,
   done |-> FALSE, chunks |-> <<>>, tail |-> <<>>, left |-> 0]

InitPure ==
  /\ index = {}
  /\ files = {}
  /\ file_count = [u \in Users |-> 0]
  /\ config = [u \in Users |-> DEFAULT_SYSTEM_PROMPT]
  /\ s3 = {}
  /\ cache = EmptyMap
  /\ hashseed = 0
  /\ nextFile = 1
  /\ genCount = 0
  /\ purged = [u \in Users |-> FALSE]
  /\ last = Idle
  /\ tasks = NoTasks
  /\ \/ \E n \in 0..MaxText :
          \E t \in [1..n -> Alphabet], cs \in ChunkSizes, co \in ChunkOverlaps :
            fcall = PureCall("chunk_text", t, cs, co, 0)
     \/ \E n \in 0..MaxText :
          \E t \in [1..n -> Alphabet], co \in ChunkOverlaps :
            fcall = PureCall("_get_overlap_text", t, 0, co, 0)
     \/ \E n \in StoredCounts :
          fcall = PureCall("delete_file_chunks", <<>>, 0, 0, n)

CallChunkText ==
  /\ fcall.fn = "chunk_text"
  /\ ~fcall.done
  /\ fcall' = [fcall EXCEPT
                 !.done = TRUE,
                 !.chunks = ChunkText(fcall.text, 1, "a.pdf", fcall.chunk_size,
                                      fcall.chunk_overlap)]
  /\ UNCHANGED <<index, files, file_count, config, s3, cache, hashseed,
                 nextFile, genCount, purged, last, tasks>>

CallGetOverlapText ==
  /\ fcall.fn = "_get_overlap_text"
  /\ ~fcall.done
  /\ fcall' = [fcall EXCEPT
                 !.done = TRUE,
                 !.tail = GetOverlapText(fcall.text, fcall.chunk_overlap)]
  /\ UNCHANGED <<index, files, file_count, config, s3, cache, hashseed,
                 nextFile, genCount, purged, last, tasks>>

CallDeleteFileChunks ==
  /\ fcall.fn = "delete_file_chunks"
  /\ ~fcall.done
  /\ fcall' = [fcall EXCEPT !.done = TRUE,
                            !.left = DeleteFileChunksLeft(fcall.stored)]
  /\ UNCHANGED <<index, files, file_count, config, s3, cache, hashseed,
                 nextFile, genCount, purged, last, tasks>>

NextPure ==
  \/ CallChunkText
  \/ CallGetOverlapText
  \/ CallDeleteFileChunks

SpecPure == InitPure /\ [][NextPure]_vars

\* SpecAsks: clients of one tenant send the same question at the same
\* time; the asks are coroutines of the one event loop, beside uploads of
\* that tenant and changes of its system prompt
LoopAsks == {a \in AskInputs : a[1] \in Active /\ a[2] = <<"a">>}
LoopUploads == {up \in UploadInputs : up[1] \in Active}

NextAsks ==
  \/ \E a \in LoopAsks : AcceptAsk(a[1], a[2])
  \/ \E up \in LoopUploads, n \in AskDocuments :
       AcceptUpload(up[1], up[2], n)
  \/ \E u \in Active, sp \in Prompts : UpdateConfig(u, sp)
  \/ \E i \in 1..MaxTasks : AskConfig(i)
  \/ \E i \in 1..MaxTasks : AskGenerate(i)
  \/ \E i \in 1..MaxTasks : UploadStore(i)
  \/ \E i \in 1..MaxTasks : UploadCount(i)

SpecAsks == Init /\ [][NextAsks]_vars

\* SpecFiles: uploads and deletes served as coroutines of the one event
\* loop, every remote call succeeding
NextFiles ==
  \/ \E up \in UploadInputs, n \in AskDocuments :
       AcceptUpload(up[1], up[2], n)
  \/ \E u \in Users, fid \in 1..MaxFiles : AcceptDeleteFile(u, fid)
  \/ \E u \in Users : AcceptDeleteAll(u)
  \/ \E i \in 1..MaxTasks : UploadStore(i)
  \/ \E i \in 1..MaxTasks : UploadCount(i)
  \/ \E i \in 1..MaxTasks : ListFiles(i)
  \/ \E i \in 1..MaxTasks : DeleteFileRemove(i)
  \/ \E i \in 1..MaxTasks : DeleteFileCount(i)
  \/ \E i \in 1..MaxTasks : DeleteAllRemove(i)
  \/ \E i \in 1..MaxTasks : DeleteAllReset(i)

SpecFiles == Init /\ [][NextFiles]_vars

\* SpecLimiter: RateLimiter.check_rate_limit called again and again, for
\* two keys, while the clock of time.time() advances
StartTime == 1700000000
LimiterKeys == {"k1", "k2"}
Limits == {1, 2}
Windows == {1, 2}

\* str(current_time): the decimal digits
RECURSIVE Str(_)
Str(n) == IF n < 10 THEN <<n>> ELSE Str(n \div 10) \o <<n % 10>>

\* ZREMRANGEBYSCORE key min max on a sorted set of [member, score]
ZRemRangeByScore(zset, min, max) ==
  {e \in zset : ~(min <= e.score /\ e.score <= max)}

\* ZCARD key
ZCard(zset) == Cardinality(zset)

\* ZADD key score member: a member already in the set keeps one entry
ZAdd(zset, member, score) ==
  {e \in zset : e.member # member} \cup {[member |-> member, score |-> score]}

\* the pipeline of check_rate_limit on the sorted set of the key
CheckRateLimit(zset, current_time, limit, window) ==
  LET trimmed == ZRemRangeByScore(zset, 0, current_time - window)
      request_count == ZCard(trimmed)
  IN [zset |-> ZAdd(trimmed, Str(current_time), current_time),
      ttl |-> window,
      allowed |-> request_count < limit]

InitLimiter ==
  /\ index = {}
  /\ files = {}
  /\ file_count = [u \in Users |-> 0]
  /\ config = [u \in Users |-> DEFAULT_SYSTEM_PROMPT]
  /\ s3 = {}
  /\ cache = EmptyMap
  /\ hashseed = 0
  /\ nextFile = 1
  /\ genCount = 0
  /\ purged = [u \in Users |-> FALSE]
  /\ last = Idle
  /\ tasks = NoTasks
  /\ \E limit \in Limits, window \in Windows :
       fcall = [fn |-> "check_rate_limit", limit |-> limit, window |-> window,
                now |-> StartTime,
                zsets |-> [k \in LimiterKeys |-> {}],
                ttl |-> [k \in LimiterKeys |-> 0],
                log |-> <<>>]

\* one call of check_rate_limit(key, limit, window) with Redis working;
\* log keeps the time and the result of every call
CallCheckRateLimit(key) ==
  /\ fcall.fn = "check_rate_limit"
  /\ Len(fcall.log) < MaxCalls
  /\ LET r == CheckRateLimit(fcall.zsets[key], fcall.now, fcall.limit,
                             fcall.window)
     IN fcall' = [fcall EXCEPT
                    !.zsets[key] = r.zset,
                    !.ttl[key] = r.ttl,
                    !.log = Append(@, [key |-> key, time |-> fcall.now,
                                       allowed |-> r.allowed])]
  /\ UNCHANGED <<index, files, file_count, config, s3, cache, hashseed,
                 nextFile, genCount, purged, last, tasks>>

\* a second passes; Redis deletes the keys whose expiry has run out
Tick ==
  /\ fcall.fn = "check_rate_limit"
  /\ fcall.now < StartTime + MaxSeconds
  /\ fcall' = [fcall EXCEPT
                 !.now = @ + 1,
                 !.ttl = [k \in LimiterKeys |->
                            IF fcall.ttl[k] > 0 THEN fcall.ttl[k] - 1 ELSE 0],
                 !.zsets = [k \in LimiterKeys |->
                              IF fcall.ttl[k] <= 1 THEN {}
                              ELSE fcall.zsets[k]]]
  /\ UNCHANGED <<index, files, file_count, config, s3, cache, hashseed,
                 nextFile, genCount, purged, last, tasks>>

NextLimiter ==
  \/ \E k \in LimiterKeys : CallCheckRateLimit(k)
  \/ Tick

SpecLimiter == InitLimiter /\ [][NextLimiter]_vars

\* ------------------------------------------------------------------ claims
\* the cache key of the ask whose response is in flight
LastKey == CacheKey(hashseed, last.user, last.question, last.prompt)
LastArgs == <<last.user, last.question, last.prompt>>
NoCalls(o) == o.embedCalls = 0 /\ o.queryCalls = 0 /\ o.genCalls = 0

C2_AskAfterDeleteAllIsNoContext ==
  (last.op = "ask" /\ last.status = "ok" /\ purged[last.user])
    => last.resp = NoContextResponse

\* every query and delete the handler sent to the vector store carries a
\* filter on the tenant id
EveryCallFiltered ==
  \A i \in DOMAIN last.vcalls :
    last.vcalls[i].op \in {"query", "delete"}
      => <<"user_id", last.user>> \in last.vcalls[i].filter

\* every chunk a query returned to the tenant, and every vector an answer
\* cites, was ingested by the tenant
OwnChunksOnly ==
  /\ \A i \in DOMAIN last.matches :
       /\ last.matches[i].id[1] = last.user
       /\ last.matches[i].metadata.user_id = last.user
  /\ last.owners \subseteq {last.user}

\* C3 as claimed: tenant isolation of results, and a tenant filter on every
\* vector-store query and delete.
C3_IsolationByFilter == OwnChunksOnly /\ EveryCallFiltered

\* C3, the part the code keeps: results are the tenant's own; every query
\* carries the tenant filter; a delete carries the tenant filter or names the
\* ids a tenant-filtered query of the same call returned (delete_file_chunks
\* sends index.delete(ids=...) with no filter); and a delete leaves the
\* vectors of every other tenant in place.
C3_TenantIsolation ==
  [][(/\ OwnChunksOnly'
      /\ \A i \in DOMAIN last'.vcalls :
           LET call == last'.vcalls[i]
           IN /\ call.op = "query" => <<"user_id", last'.user>> \in call.filter
              /\ call.op = "delete" =>
                   \/ <<"user_id", last'.user>> \in call.filter
                   \/ /\ i > 1
                      /\ last'.vcalls[i - 1].op = "query"
                      /\ <<"user_id", last'.user>> \in last'.vcalls[i - 1].filter
                      /\ \A id \in call.ids : id[1] = last'.user
      /\ last'.op \in {"ask", "delete_file", "delete_all"} =>
           {e \in index' : e.metadata.user_id # last'.user}
             = {e \in index : e.metadata.user_id # last'.user})]_vars

\* C3, a case of the above: a tenant was answered from its own chunks while the index
\* also holds another tenant's
C3_Witness ==
  /\ last.op = "ask"
  /\ last.path = "generated"
  /\ last.matches # <<>>
  /\ \E e \in index : e.metadata.user_id # last.user

\* C4: an ask in which the cache read or the cache write failed is still
\* answered; after a failed write, with the answer just generated.
C4_CacheFailureTolerated ==
  (last.op = "ask" /\ last.fault \in {<<"cache_get", 0>>, <<"cache_set", 0>>})
    => (/\ last.status = "ok"
        /\ last.fault = <<"cache_set", 0>> => last.resp.answer = Answer(genCount))

\* C5: an ask that missed the cache and whose vector-store query returned
\* no match answers the fixed no-context response, does not invoke the
\* generator and does not write the cache.
C5_NoContextFallback ==
  (/\ last.op = "ask"
   /\ last.queryCalls = 1
   /\ last.fault # <<"query", 0>>
   /\ last.matches = <<>>)
    => (/\ last.status = "ok"
        /\ last.resp = NoContextResponse
        /\ last.genCalls = 0
        /\ last.cacheSets = 0
        /\ "cache" \notin last.changed)

\* C5 witness: a fallback answer for a tenant without vectors while the
\* index holds another tenant's and the cache holds an entry
C5_Witness ==
  /\ last.op = "ask"
  /\ last.status = "ok"
  /\ last.queryCalls = 1
  /\ last.matches = <<>>
  /\ index # {}
  /\ cache # EmptyMap

\* C6: a cache hit returns an answer that an ask with the same tenant, the
\* same question and the same system prompt generated.
C6_HitReturnsOwnAnswer ==
  (last.op = "ask" /\ last.path = "hit") => cache[LastKey].by = LastArgs

\* C7: an ask whose vector-store query failed is answered with the fixed
\* no-context response.
C7_QueryFailureFallsBack ==
  (last.op = "ask" /\ last.fault = <<"query", 0>>)
    => (last.status = "ok" /\ last.resp = NoContextResponse)

\* C8: an upload whose vector-store upsert failed reports an error, writes
\* no file record and leaves file_count as it was.
C8_UpsertFailureIsHard ==
  (last.op = "upload" /\ last.fault = <<"upsert", 0>>)
    => (/\ last.status = "error"
        /\ \A r \in files : r.id # last.file
        /\ last.changed \cap {"index", "files", "file_count"} = {})

\* C8 witness: a three-chunk upload failed at the upsert
C8_Witness ==
  /\ last.op = "upload"
  /\ last.fault = <<"upsert", 0>>
  /\ last.resp.chunk_count = 3
  /\ last.status = "error"
  /\ last.file \in {k[2] : k \in s3}

\* C9: an upload in which the embedding of some chunk failed reports an
\* error; the index holds no vector of the document, the files table no
\* record of it, and index, files and file_count are as before.
C9_EmbeddingFailureAborts ==
  (last.op = "upload" /\ last.fault[1] = "embed")
    => (/\ last.status = "error"
        /\ \A e \in index : e.metadata.file_id # last.file
        /\ \A r \in files : r.id # last.file
        /\ last.changed \cap {"index", "files", "file_count"} = {})

\* C9 witness: the embedding of the last of three chunks failed, with
\* another document already indexed
C9_Witness ==
  /\ last.op = "upload"
  /\ last.fault = <<"embed", 3>>
  /\ last.status = "error"
  /\ index # {}

\* C10: an ask invokes the generator at most once; when the invocation
\* fails, the ask fails (no answer of any kind is returned) and the cache is
\* not written.
C10_GenerationFailurePropagates ==
  last.op = "ask"
    => (/\ last.genCalls <= 1
        /\ last.fault = <<"generate", 0>> =>
             (/\ last.status = "error"
              /\ last.resp = Raised
              /\ last.genCalls = 1
              /\ last.cacheSets = 0
              /\ "cache" \notin last.changed))

\* C10 witness: the generator failed with chunks retrieved
C10_Witness ==
  /\ last.op = "ask"
  /\ last.fault = <<"generate", 0>>
  /\ last.matches # <<>>
  /\ last.status = "error"

\* C11: an answered ask took exactly one of three paths: cache hit (no
\* further call), miss and empty retrieval (fixed answer, no generation, no
\* write), or miss, non-empty retrieval, one generation and then one cache
\* write. The cache is written only on the third path, after the generation
\* succeeded, and the value written decodes to the response returned.
C11_AskPaths ==
  last.op = "ask" =>
    /\ last.status = "ok" =>
         \/ /\ NoCalls(last)
            /\ last.cacheSets = 0
            /\ "cache" \notin last.changed
            /\ LastKey \in DOMAIN cache
            /\ last.resp = JsonLoads(cache[LastKey].value)
         \/ /\ last.embedCalls = 1 /\ last.queryCalls = 1
            /\ last.matches = <<>>
            /\ last.genCalls = 0 /\ last.cacheSets = 0
            /\ "cache" \notin last.changed
            /\ last.resp = NoContextResponse
         \/ /\ last.embedCalls = 1 /\ last.queryCalls = 1
            /\ last.matches # <<>>
            /\ last.genCalls = 1 /\ last.cacheSets = 1
            /\ "cache" \in last.changed
    /\ last.cacheSets > 0 =>
         (last.genCalls = 1 /\ last.fault # <<"generate", 0>>)
    /\ "cache" \in last.changed =>
         /\ last.status = "ok"
         /\ last.genCalls = 1 /\ last.cacheSets = 1
         /\ last.matches # <<>>
         /\ LastKey \in DOMAIN cache
         /\ cache[LastKey].value = JsonDumps(last.resp)
         /\ JsonLoads(cache[LastKey].value) = last.resp
         /\ cache[LastKey].ttl = REDIS_TTL
         /\ last.resp.chunk_count = Len(last.matches)
         /\ \A i \in DOMAIN last.matches :
              last.resp.sources[i] =
                [filename |-> last.matches[i].metadata.filename,
                 score |-> last.matches[i].score]

\* C11 witness: an ask under a changed system prompt generated an answer
\* from two chunks and stored it
C11_Witness ==
  /\ last.op = "ask"
  /\ last.status = "ok"
  /\ "cache" \in last.changed
  /\ last.prompt = <<"b", "c">>
  /\ last.resp.chunk_count = 2
  /\ cache[LastKey].value = JsonDumps(last.resp)


\* C12: in delete_file and delete_all_user_data the file records are deleted
\* only after the vector-store calls of the request returned without error:
\* a request whose vector-store query or delete failed reports an error and
\* leaves the files table and file_count as they were.
C12_VectorsBeforeRecords ==
  last.op \in {"delete_file", "delete_all"} =>
    /\ last.fault[1] \in {"vs_query", "vs_delete"} =>
         /\ last.status = "error"
         /\ last.changed \cap {"files", "file_count"} = {}
    /\ "files" \in last.changed =>
         /\ last.vcalls # <<>>
         /\ last.fault[1] \notin {"vs_query", "vs_delete"}
         /\ last.op = "delete_all" =>
              \E i \in DOMAIN last.vcalls : last.vcalls[i].op = "delete"
         /\ last.op = "delete_file" => last.vcalls[1].op = "query"

\* C12 witness: the vector-store delete of a file with a record and three
\* vectors failed
C12_Witness ==
  /\ last.op = "delete_file"
  /\ last.fault = <<"vs_delete", 0>>
  /\ last.status = "error"
  /\ \E r \in files : r.id = last.file /\ r.user_id = last.user
  /\ \E e \in index : e.metadata.file_id = last.file


\* C20: whenever no request is in progress, a file id has vectors in the
\* index for a tenant if and only if the files table holds a record of that
\* file id for that tenant. The record of a document that has no chunks at
\* all (chunk_count 0) is left out of account: it can have no vectors.
C20_IndexMatchesRecords ==
  last = Idle =>
    \A u \in Users, fid \in 1..MaxFiles :
      /\ (\E e \in index : e.metadata.user_id = u /\ e.metadata.file_id = fid)
           => (\E r \in files : r.user_id = u /\ r.id = fid)
      /\ (\E r \in files : r.user_id = u /\ r.id = fid /\ r.chunk_count > 0)
           => (\E e \in index : e.metadata.user_id = u
                                  /\ e.metadata.file_id = fid)

\* C13: when delete_file_chunks has returned, the index holds no vector of
\* the file, however many were stored for it.
C13_DeleteFileChunksRemovesAll ==
  (fcall.fn = "delete_file_chunks" /\ fcall.done) => fcall.left = 0

\* the chunks chunk_text returned, without the source-name prefix
Cores == [i \in DOMAIN fcall.chunks |->
            SubSeq(fcall.chunks[i].content, 4, Len(fcall.chunks[i].content))]
\* the sentences of the text given to chunk_text
Sentences == SplitIntoSentences(CleanText(fcall.text))
Words(str) == Fields(str, Whitespace)
IsPrefix(p, str) == Len(p) <= Len(str) /\ SubSeq(str, 1, Len(p)) = p
\* the overlap tail injected at the head of chunk i
Injected(i) ==
  IF i = 1 THEN <<>> ELSE GetOverlapText(Cores[i - 1], fcall.chunk_overlap)
\* chunk i without prefix and injected overlap
Rests == [i \in DOMAIN Cores |->
            SubSeq(Cores[i], Len(Injected(i)) + 1, Len(Cores[i]))]
\* the last k words of a word sequence (all of them when it has fewer)
LastWords(words, k) ==
  SubSeq(words, (IF k < Len(words) THEN Len(words) - k ELSE 0) + 1, Len(words))

\* the configured overlap is a positive multiple of ten
PlainOverlap == fcall.chunk_overlap > 0 /\ fcall.chunk_overlap % 10 = 0

\* C14: every chunk is at most chunk_size characters long without its
\* prefix, unless what it adds to the overlap is a single sentence that is
\* itself longer than chunk_size. Stated for an overlap that is a positive
\* multiple of ten, where the tail is chunk_overlap / 10 words.
C14_ChunkWithinSize ==
  (fcall.fn = "chunk_text" /\ fcall.done /\ PlainOverlap) =>
    \A i \in DOMAIN Cores :
      \/ Len(Cores[i]) <= fcall.chunk_size
      \/ /\ Len(Rests[i]) > fcall.chunk_size
         /\ \E j \in DOMAIN Sentences : Rests[i] = Sentences[j]

\* rests are, in order, runs of whole consecutive sentences joined by
\* blanks that together use every sentence once
RECURSIVE Partitions(_, _)
Partitions(rests, sentences) ==
  IF rests = <<>> THEN sentences = <<>>
  ELSE \E m \in 1..Len(sentences) :
         /\ Head(rests) = Join(SubSeq(sentences, 1, m))
         /\ Partitions(Tail(rests), SubSeq(sentences, m + 1, Len(sentences)))

\* C15: every chunk after the first starts with the injected overlap, and
\* the chunks without prefix and overlap are, in order, the sentences of the
\* text: each sentence once, whole, in its place.
C15_ChunkingLossless ==
  (fcall.fn = "chunk_text" /\ fcall.done) =>
    /\ \A i \in DOMAIN Cores : IsPrefix(Injected(i), Cores[i])
    /\ Partitions(Rests, Sentences)

\* C15 witness: three sentences of which the first two fill a chunk
C15_Witness ==
  /\ fcall.fn = "chunk_text"
  /\ fcall.done
  /\ Len(Sentences) = 3
  /\ Len(fcall.chunks) = 2
  /\ PlainOverlap
  /\ Rests[1] = Join(SubSeq(Sentences, 1, 2))
  /\ Injected(2) # <<>>

\* C16: the words of every chunk after the first are some trailing words of
\* the chunk before it (at least one) followed by the words of the
\* sentences that come next. Stated for an overlap that is a positive
\* multiple of ten.
C16_OverlapWords ==
  (fcall.fn = "chunk_text" /\ fcall.done /\ PlainOverlap
     /\ Len(fcall.chunks) > 1) =>
    \A i \in 2..Len(Cores) :
      \E k \in 1..Len(Words(Cores[i - 1])) :
        \E a \in DOMAIN Sentences, b \in DOMAIN Sentences :
          /\ a <= b
          /\ Words(Cores[i]) = LastWords(Words(Cores[i - 1]), k)
                                 \o Words(Join(SubSeq(Sentences, a, b)))

\* C18: the overlap tail is the last floor(chunk_overlap / 10) words of the
\* closed chunk, joined by blanks.
C18_OverlapTailFloor ==
  (fcall.fn = "_get_overlap_text" /\ fcall.done) =>
    fcall.tail = Join(LastWords(Words(fcall.text), fcall.chunk_overlap \div 10))

\* two asks of the same tenant with the same question and system prompt,
\* both accepted while the cache was empty and the tenant had vectors in
\* the index, the second accepted before the first had returned, and both
\* answered
SameAsk(i, j) ==
  /\ i # j
  /\ tasks[i].op = "ask" /\ tasks[j].op = "ask"
  /\ tasks[i].pc = "done" /\ tasks[j].pc = "done"
  /\ tasks[i].user = tasks[j].user
  /\ tasks[i].question = tasks[j].question
  /\ tasks[i].system_prompt = tasks[j].system_prompt
  /\ tasks[i].cold /\ tasks[j].cold
  /\ tasks[i].indexed /\ tasks[j].indexed
  /\ i \in tasks[j].peers

FullCycle(t) == t.path = "generated" /\ t.genCalls = 1 /\ t.cacheSets = 1

C19_FileCountMatchesRows ==
  \A u \in Users :
    (\A i \in DOMAIN tasks : tasks[i].user # u) =>
      file_count[u] = Cardinality(GetUserFiles(files, u))

\* C21: a delete_file for a file id that is not among the caller's own
\* records (no such file, or a file of another tenant), once the file list
\* has been read, fails and changes nothing: no vector-store call is made,
\* and the bucket, the index, the files table and every file_count stay as
\* they were.
C21_NotOwnedDeleteChangesNothing ==
  [][\A u \in Users, fid \in 1..MaxFiles, f \in DeleteFaults :
       (/\ DeleteFile(u, fid, f)
        /\ f # <<"db_list", 0>>
        /\ ~\E r \in files : r.id = fid /\ r.user_id = u)
       => /\ last'.status = "error"
          /\ last'.fault = NoFault
          /\ last'.vcalls = <<>>
          /\ last'.changed = {}
          /\ UNCHANGED <<s3, index, files, file_count>>]_vars

\* a tenant who has a file of its own was refused the delete of a file
\* that another tenant owns
C21_Witness ==
  /\ last.op = "delete_file"
  /\ last.status = "error"
  /\ last.fault = NoFault
  /\ \E r \in files : r.id = last.file /\ r.user_id # last.user
  /\ file_count[last.user] > 0
  /\ \E r \in files : r.user_id = last.user

\* the calls for the key that returned True at a time t with from <= t and
\* t < from + window
AllowedIn(key, from) ==
  {i \in DOMAIN fcall.log :
     /\ fcall.log[i].key = key
     /\ fcall.log[i].allowed
     /\ from <= fcall.log[i].time
     /\ fcall.log[i].time < from + fcall.window}

\* C22: for every key, the calls that returned True within any one window
\* of `window` seconds are at most `limit`.
C22_LimitEnforced ==
  fcall.fn = "check_rate_limit" =>
    \A k \in LimiterKeys, from \in StartTime..(StartTime + MaxSeconds) :
      Cardinality(AllowedIn(k, from)) <= fcall.limit


====
